---- MODULE Spec2Model ----
(***************************************************************************)
(* A model of skyalignments.py: the GPX waypoint loader, the main script,  *)
(* find_alignments / find_azimuths / find_rise_set / nearest_time, the     *)
(* bearing function angle_between and the matching loop.                   *)
(*                                                                         *)
(* Units.  Instants (ephem.Date, a float number of days since the ephem    *)
(* epoch) are integer ticks since the epoch, DayLen ticks to a day.        *)
(* Angles in degrees are integers in thousandths of a degree.  Elevations  *)
(* are integers in 1/ElevUnit metre.  Python's None is the empty tuple     *)
(* and an optional value v is <<v>>.                                       *)
(***************************************************************************)
EXTENDS Integers, Sequences, FiniteSets, TLC

\* ---------------------------------------------------------------- bounds
MaxFiles == 2
MaxWpts == 3

\* ------------------------------------------------------------ fixed point
Milli == 1000
FullCircle == 360 * Milli
ElevUnit == 10000
FeetMetres == 3048

Abs(x) == IF x < 0 THEN -x ELSE x

\* ------------------------------------------------------------- the inputs
\* <wpt> elements a GPX file may hold: name and ele are optional children.
WptElements ==
  { [name |-> <<"A">>, lat |-> 0, lon |-> 0, ele |-> <<10 * ElevUnit>>],
    [name |-> <<"A">>, lat |-> 0, lon |-> 0, ele |-> <<>>],
    [name |-> <<>>,    lat |-> 1, lon |-> 0, ele |-> <<>>],
    [name |-> <<"Observer">>, lat |-> 0, lon |-> 1, ele |-> <<>>] }

SeqsUpTo(S, n) == UNION { [1..m -> S] : m \in 0..n }

GpxFiles == SeqsUpTo(WptElements, MaxWpts)

RECURSIVE Total(_)
Total(fl) == IF fl = <<>> THEN 0 ELSE Len(Head(fl)) + Total(Tail(fl))

\* argparse nargs='+': at least one file name.  MaxWpts bounds the <wpt>
\* elements of all files together.
FileLists ==
  { fl \in SeqsUpTo(GpxFiles, MaxFiles) \ { <<>> } : Total(fl) <= MaxWpts }

\* The -o option already split at the commas: None, or lat, lon and an
\* optional elevation with its unit suffix ("f", "m" or "").
ObserverArgs ==
  { <<>>,
    <<[lat |-> 1, lon |-> 1, ele |-> <<1650>>, unit |-> "f"]>> }

\* --------------------------------------------------------------- the clock
Epoch == 1900
DayLen == 4
LunarDayLen == 5
MoonPeriod == 12
SeasonLen == 40
YearLen == 4 * SeasonLen
\* datetime.now().year and ephem.now() read the same wall clock.
Nows == { (2026 - Epoch) * YearLen + 25, (2027 - Epoch) * YearLen + 131 }
YearOf(t) == Epoch + (t \div YearLen)

\* ------------------------------------------------------------- the loader
PointNames == <<"Point 1", "Point 2", "Point 3", "Point 4", "Point 5">>

LowerPointNames == <<"point 1", "point 2", "point 3", "point 4", "point 5">>

\* str.lower on the names that occur.
Lower(name) ==
  CASE name = "Observer" -> "observer"
    [] name = "A" -> "a"
    [] \E n \in DOMAIN PointNames : name = PointNames[n] ->
         LowerPointNames[CHOOSE n \in DOMAIN PointNames : name = PointNames[n]]
    [] OTHER -> name

\* The loop over the <wpt> elements: returns <<observer, waypoints>>.
RECURSIVE LoadWpts(_, _, _, _, _)
LoadWpts(waypts, n, pointno, observer, acc) ==
  IF n > Len(waypts) THEN <<observer, acc>>
  ELSE
    LET pt == waypts[n]
        ele == IF pt.ele # <<>> THEN pt.ele[1] ELSE 500 * ElevUnit
        unnamed == pt.name = <<>>
        pn == IF unnamed THEN pointno + 1 ELSE pointno
        name == IF unnamed THEN PointNames[pn] ELSE pt.name[1]
    IN LoadWpts(waypts, n + 1, pn,
                IF Lower(name) = "observer" THEN <<pt>> ELSE observer,
                Append(acc, <<name, pt.lat, pt.lon, ele>>))

\* A file without <wpt> elements gives the empty list, any other file a
\* pair (observer, waypoints).
read_track_file_GPX(file) ==
  IF file = <<>> THEN <<>>
  ELSE LoadWpts(file, 1, 0, <<>>, <<>>)

\* ----------------------------------------------------------- the -o option
ParseObserver(arg) ==
  LET a == arg[1]
      ele == IF a.ele # <<>>
             THEN IF a.unit = "f" THEN a.ele[1] * FeetMetres
                  ELSE a.ele[1] * ElevUnit
             ELSE 0
  IN <<"Observer", a.lat, a.lon, ele>>

\* ----------------------------------------------------------- the ephemeris
\* The ephemeris is an oracle with a regular sky: every kind of event recurs
\* with a period, and "previous"/"next" are strictly before/after the date.
PrevAt(t, phase, period) == t - 1 - ((t - 1 - phase) % period)
NextAt(t, phase, period) == t + 1 + ((phase - t - 1) % period)

RisePhase(obj) == IF obj = "sun" THEN 1 ELSE 2
SetPhase(obj) == IF obj = "sun" THEN 3 ELSE 4
ObjDay(obj) == IF obj = "sun" THEN DayLen ELSE LunarDayLen

previous_rising(date, obj) == PrevAt(date, RisePhase(obj), ObjDay(obj))
next_rising(date, obj) == NextAt(date, RisePhase(obj), ObjDay(obj))
previous_setting(date, obj) == PrevAt(date, SetPhase(obj), ObjDay(obj))
next_setting(date, obj) == NextAt(date, SetPhase(obj), ObjDay(obj))

previous_full_moon(date) == PrevAt(date, 7, MoonPeriod)
next_full_moon(date) == NextAt(date, 7, MoonPeriod)
\* Equinoxes and solstices alternate, SeasonLen apart.
next_equinox(date) == NextAt(date, 18, 2 * SeasonLen)
next_solstice(date) == NextAt(date, 18 + SeasonLen, 2 * SeasonLen)

\* ephem.Date('1/1/%d' % year)
StartDate(year) == (year - Epoch) * YearLen

\* ephem.degree, in microradians.
Degree == 17453

\* obj.compute(observer); obj.az / ephem.degree: the azimuth of the body for
\* the observer's place and date, thousandths of a degree in [0, 360).
AzCycle ==
  <<1999, 2000, 359000, 181999, 182000, 90000, 178001, 358001, 270000>>
Az(obj, observer) ==
  AzCycle[((observer.date + (observer.lat + observer.lon) \div Degree
            + (IF obj = "sun" THEN 0 ELSE 4)) % Len(AzCycle)) + 1]

\* ------------------------------------------------------------ nearest_time
nearest_time(targettime, t1, t2) ==
  LET d1 == Abs(targettime - t1)
      d2 == Abs(targettime - t2)
  IN IF d1 <= d2 THEN d1 ELSE d2

\* ----------------------------------------------------------- angle_between
\* math.sin and math.cos of -1, 0 and 1 (radians), in thousandths.
Sin(a) == CASE a = -1 -> -841 [] a = 0 -> 0 [] a = 1 -> 841
Cos(a) == CASE a = -1 -> 540 [] a = 0 -> 1000 [] a = 1 -> 540

\* math.atan2(y, x) / ephem.degree in thousandths of a degree, on the pairs
\* (y, x) that waypoints with coordinates 0 and 1 produce.
Atan2Deg(y, x) ==
  CASE y = 0 /\ x >= 0 -> 0
    [] y = 0 /\ x < 0 -> 180000
    [] y > 0 /\ x = 0 -> 90000
    [] y < 0 /\ x = 0 -> -90000
    [] y = 454140000 /\ x = 841000000 -> 28369
    [] y = -454140000 /\ x = 841000000 -> -28369
    [] y = 841000000 /\ x = -454140000 -> 118369
    [] y = -841000000 /\ x = -454140000 -> -118369
    [] y = 454140000 /\ x = 208904400 -> 65298
    [] y = -454140000 /\ x = 208904400 -> -65298

\* Waypoints are <<name, lat, lon, ele>>; wp[2] and wp[3] are Python's wp[1]
\* and wp[2].
angle_between(wp1, wp2) ==
  LET lat1 == wp1[2]
      lon1 == wp1[3]
      lat2 == wp2[2]
      lon2 == wp2[3]
      dlon == lon2 - lon1
      y == Sin(dlon) * Cos(lat2) * Milli
      x == Cos(lat1) * Sin(lat2) * Milli
           - Sin(lat1) * Cos(lat2) * Cos(dlon)
  IN (FullCircle - Atan2Deg(y, x)) % FullCircle

\* How many degrees is close enough?
DEGREESLOP == 2 * Milli

\* The keys of the azimuth table in the order the dicts are filled.
Seasons ==
  <<"vernal equinox", "summer solstice", "autumnal equinox", "winter solstice">>
Bodies == <<"sun", "full moon">>
Events == <<"rise", "set">>

\* All (season, body, event) keys, seasons outermost, events innermost.
AllKeys ==
  [ n \in 1..(Len(Seasons) * Len(Bodies) * Len(Events)) |->
      <<Seasons[((n - 1) \div (Len(Bodies) * Len(Events))) + 1],
        Bodies[(((n - 1) \div Len(Events)) % Len(Bodies)) + 1],
        Events[((n - 1) % Len(Events)) + 1]>> ]

InTable(azimuths, key) ==
  /\ key[1] \in DOMAIN azimuths
  /\ key[2] \in DOMAIN azimuths[key[1]]
  /\ key[3] \in DOMAIN azimuths[key[1]][key[2]]

\* for season in azimuths: for body in ...: for event in ...
TableKeys(azimuths) ==
  LET Present(key) == InTable(azimuths, key)
  IN SelectSeq(AllKeys, Present)

\* The tolerance with its bound included.
CloseInclusive(azimuth, angle) == Abs(azimuth - angle) <= DEGREESLOP

\* Does that angle match the astronomical one?
Close(azimuth, angle) == Abs(azimuth - angle) < DEGREESLOP

\* The records the three inner loops append for one pair of waypoints.
PairMatches(azimuths, wp1, wp2) ==
  LET angle == angle_between(wp1, wp2)
      Hit(key) == Close(azimuths[key[1]][key[2]][key[3]], angle)
      hits == SelectSeq(TableKeys(azimuths), Hit)
  IN [ n \in 1..Len(hits) |-> <<wp1[1], wp2[1], hits[n]>> ]

VARIABLES
  files,          \* args.gpxfiles, each file as its sequence of <wpt> elements
  observerArg,    \* args.observer
  now,            \* the wall clock of the run
  pc,             \* position of the script
  k,              \* index of the file the main loop is at
  waypoints,      \* main: waypoints
  observerPoint,  \* main: observerPoint, [kind, val]
  output,         \* what the run has printed, in order
  status,         \* exit status of the process, <<>> while running
  err,            \* the exception that ended the run, "" if none
  observer,       \* the ephem.Observer: name, lat, lon, elevation, date
  year,           \* find_alignments: year
  start_date,     \* find_alignments: start_date
  s,              \* number of the season find_alignments is at, 0 before
  azimuths,       \* find_alignments: azimuths
  riseset,        \* find_azimuths: riseset
  lastfull,       \* find_azimuths: lastfull
  nextfull,       \* find_azimuths: nextfull
  obj,            \* find_rise_set: obj, "sun" or "full moon"
  prevrise,       \* find_rise_set: prevrise
  nextrise,       \* find_rise_set: nextrise
  prevset,        \* find_rise_set: prevset
  nextset,        \* find_rise_set: nextset
  risetime,       \* find_rise_set: risetime
  settime,        \* find_rise_set: settime
  rise_az,        \* find_rise_set: rise_az / ephem.degree
  set_az,         \* find_rise_set: set_az / ephem.degree
  i,              \* index of wp1 in the outer loop
  j,              \* index of wp2 in the inner loop
  matches,        \* find_alignments: matches
  \* ---- history of the run, read by the properties only
  seasonInstant,  \* the dates find_azimuths was called at, in order
  chainArg,       \* the dates handed to next_equinox / next_solstice
  target,         \* observer.date when find_rise_set starts its queries
  setTarget,      \* targettime handed to nearest_time at line 40
  queries,        \* number of ephemeris queries made
  failures,       \* number of queries the ephemeris did not answer
  angled,         \* index pairs angle_between was called for
  compared        \* <<i, j, key>> for every comparison at line 126

mainvars == <<files, observerArg, now, k, waypoints, observerPoint, output,
              status, err>>
favars == <<year, start_date, s, azimuths>>
fazvars == <<riseset, lastfull, nextfull>>
frsvars == <<obj, prevrise, nextrise, prevset, nextset, risetime, settime,
             rise_az, set_az>>
matchvars == <<i, j, matches>>
histvars == <<seasonInstant, chainArg, target, setTarget, queries, failures,
              angled, compared>>

vars == <<mainvars, pc, observer, favars, fazvars, frsvars, matchvars,
          histvars>>

Empty == [x \in {} |-> 0]

Init ==
  /\ files \in FileLists
  /\ observerArg \in ObserverArgs
  /\ now \in Nows
  /\ pc = "main_args"
  /\ k = 0
  /\ waypoints = <<>>
  /\ observerPoint = [kind |-> "none", val |-> <<>>]
  /\ output = <<>>
  /\ status = <<>>
  /\ err = ""
  /\ observer = [name |-> <<>>, lat |-> 0, lon |-> 0, elevation |-> 0,
                 date |-> now]
  /\ year = 0
  /\ start_date = 0
  /\ s = 0
  /\ azimuths = Empty
  /\ riseset = Empty
  /\ lastfull = 0
  /\ nextfull = 0
  /\ obj = "sun"
  /\ prevrise = 0
  /\ nextrise = 0
  /\ prevset = 0
  /\ nextset = 0
  /\ risetime = 0
  /\ settime = 0
  /\ rise_az = 0
  /\ set_az = 0
  /\ i = 0
  /\ j = 0
  /\ matches = <<>>
  /\ seasonInstant = <<>>
  /\ chainArg = <<>>
  /\ target = 0
  /\ setTarget = 0
  /\ queries = 0
  /\ failures = 0
  /\ angled = {}
  /\ compared = {}

Printed(line, arg) == Append(output, [line |-> line, arg |-> arg])

\* An uncaught exception: traceback, exit status 1.
Raise(e) ==
  /\ pc' = "raised"
  /\ err' = e
  /\ status' = <<1>>

\* ------------------------------------------------------------------- main
\* lines 210-227
MainArgs ==
  /\ pc = "main_args"
  /\ observerPoint' = IF observerArg # <<>>
                      THEN [kind |-> "list", val |-> ParseObserver(observerArg)]
                      ELSE [kind |-> "none", val |-> <<>>]
  /\ waypoints' = <<>>
  /\ k' = 1
  /\ pc' = "main_read"
  /\ UNCHANGED <<files, observerArg, now, output, status, err, observer,
                 favars, fazvars, frsvars, matchvars, histvars>>

\* lines 228-235, one file
MainRead ==
  /\ pc = "main_read"
  /\ LET ret == read_track_file_GPX(files[k])
     IN IF Len(ret) # 2
        THEN \* obs, wp = []
             /\ Raise("ValueError")
             /\ UNCHANGED <<k, waypoints, observerPoint, output>>
        ELSE LET obs == ret[1]
                 wp == ret[2]
             IN /\ IF wp # <<>>
                   THEN /\ waypoints' = waypoints \o wp
                        /\ output' = output
                   ELSE /\ waypoints' = waypoints
                        /\ output' = Printed("No waypoints in", k)
                /\ observerPoint' = IF obs # <<>>
                                    THEN [kind |-> "element", val |-> obs[1]]
                                    ELSE observerPoint
                /\ IF k < Len(files)
                   THEN k' = k + 1 /\ pc' = "main_read"
                   ELSE k' = k /\ pc' = "main_check"
                /\ UNCHANGED <<status, err>>
  /\ UNCHANGED <<files, observerArg, now, observer, favars, fazvars, frsvars,
                 matchvars, histvars>>

\* lines 237-239
MainCheck ==
  /\ pc = "main_check"
  /\ IF waypoints = <<>>
     THEN /\ output' = Printed("help", 0)
          /\ status' = <<1>>
          /\ pc' = "exited"
     ELSE /\ pc' = "main_observer"
          /\ UNCHANGED <<output, status>>
  /\ UNCHANGED <<files, observerArg, now, k, waypoints, observerPoint, err,
                 observer, favars, fazvars, frsvars, matchvars, histvars>>

\* lines 241-258
MainObserver ==
  /\ pc = "main_observer"
  /\ LET first == observerPoint.kind = "none"
         op == IF first THEN [kind |-> "list", val |-> waypoints[1]]
               ELSE observerPoint
         out1 == IF first THEN Printed("First waypoint:", waypoints[1])
                 ELSE output
     IN /\ observerPoint' = op
        /\ IF op.kind = "element"
           THEN \* a DOM element cannot be subscripted
                /\ Raise("TypeError")
                /\ output' = out1
                /\ UNCHANGED observer
           ELSE LET pt == op.val
                    ob == [name |-> <<pt[1], pt[3] * Degree, pt[2] * Degree,
                                      pt[4]>>,
                           lat |-> pt[2] * Degree,
                           lon |-> pt[3] * Degree,
                           elevation |-> pt[4],
                           date |-> observer.date]
                IN /\ observer' = ob
                   /\ output' = Append(Append(out1,
                                   [line |-> "observer", arg |-> ob.name]),
                                   [line |-> "", arg |-> 0])
                   /\ pc' = "fa_start"
                   /\ UNCHANGED <<status, err>>
  /\ UNCHANGED <<files, observerArg, now, k, waypoints, favars, fazvars,
                 frsvars, matchvars, histvars>>

\* -------------------------------------------------------- find_alignments
\* lines 90-94 (main passes no year)
FaStart ==
  /\ pc = "fa_start"
  /\ azimuths' = Empty
  /\ year' = YearOf(now)
  /\ start_date' = StartDate(YearOf(now))
  /\ s' = 0
  /\ pc' = "fa_season"
  /\ UNCHANGED <<mainvars, observer, fazvars, frsvars, matchvars, histvars>>

\* The date line 96, 99, 102 or 105 hands to next_equinox / next_solstice.
SeasonArg == IF s = 0 THEN start_date ELSE observer.date

\* The right-hand side of line 96, 99, 102 or 105.
SeasonDate ==
  IF s % 2 = 0 THEN next_equinox(SeasonArg) ELSE next_solstice(SeasonArg)

\* line 96, 99, 102 or 105, then the call of find_azimuths (lines 50, 53)
FaSeason ==
  /\ pc = "fa_season"
  /\ s' = s + 1
  /\ observer' = [observer EXCEPT !.date = SeasonDate]
  /\ chainArg' = Append(chainArg, SeasonArg)
  /\ seasonInstant' = Append(seasonInstant, SeasonDate)
  /\ queries' = queries + 1
  /\ riseset' = Empty
  /\ obj' = "sun"
  /\ pc' = "frs_enter"
  /\ UNCHANGED <<mainvars, year, start_date, azimuths, lastfull, nextfull,
                 prevrise, nextrise, prevset, nextset, risetime, settime,
                 rise_az, set_az, matchvars, target, setTarget, failures,
                 angled, compared>>

\* ---------------------------------------------------------- find_rise_set
\* lines 29-30: both callers leave d at None
FrsEnter ==
  /\ pc = "frs_enter"
  /\ LET d == <<>>
     IN /\ observer' = IF d # <<>> THEN [observer EXCEPT !.date = d[1]]
                       ELSE observer
        /\ target' = IF d # <<>> THEN d[1] ELSE observer.date
  /\ pc' = "frs_prevrise"
  /\ UNCHANGED <<mainvars, favars, fazvars, frsvars, matchvars, seasonInstant,
                 chainArg, setTarget, queries, failures, angled,
                 compared>>

\* The ephemeris answers the query of line 31, 32, 33 or 34.
Answered(at, then) ==
  /\ pc' = then
  /\ prevrise' = IF at = "frs_prevrise"
                 THEN previous_rising(observer.date, obj) ELSE prevrise
  /\ nextrise' = IF at = "frs_nextrise"
                 THEN next_rising(observer.date, obj) ELSE nextrise
  /\ prevset' = IF at = "frs_prevset"
                THEN previous_setting(observer.date, obj) ELSE prevset
  /\ nextset' = IF at = "frs_nextset"
                THEN next_setting(observer.date, obj) ELSE nextset
  /\ UNCHANGED <<status, err, failures>>

\* A failure swallowed: the candidate defaults to 0 and the run goes on.
NotAnsweredDefault(at, then) ==
  /\ failures' = failures + 1
  /\ pc' = then
  /\ prevrise' = IF at = "frs_prevrise" THEN 0 ELSE prevrise
  /\ nextrise' = IF at = "frs_nextrise" THEN 0 ELSE nextrise
  /\ prevset' = IF at = "frs_prevset" THEN 0 ELSE prevset
  /\ nextset' = IF at = "frs_nextset" THEN 0 ELSE nextset
  /\ UNCHANGED <<status, err>>

\* The ephemeris raises (the body never rises or never sets at this place
\* and date); nothing in find_rise_set, find_azimuths, find_alignments or the
\* script catches it.
NotAnswered(at, then) ==
  /\ failures' = failures + 1
  /\ Raise("ephem.CircumpolarError")
  /\ UNCHANGED <<prevrise, nextrise, prevset, nextset>>

\* One of lines 31-34.
FrsQuery(at, then) ==
  /\ pc = at
  /\ queries' = queries + 1
  /\ \E answers \in BOOLEAN :
       IF answers THEN Answered(at, then) ELSE NotAnswered(at, then)
  /\ UNCHANGED <<files, observerArg, now, k, waypoints, observerPoint, output,
                 observer, favars, fazvars, obj, risetime, settime, rise_az,
                 set_az, matchvars, seasonInstant, chainArg, target, setTarget,
                 angled, compared>>

FrsPrevRise == FrsQuery("frs_prevrise", "frs_nextrise")
FrsNextRise == FrsQuery("frs_nextrise", "frs_prevset")
FrsPrevSet == FrsQuery("frs_prevset", "frs_nextset")
FrsNextSet == FrsQuery("frs_nextset", "frs_rise")

\* line 36
RiseTime == nearest_time(observer.date, prevrise, nextrise)

\* lines 36-39
FrsRise ==
  /\ pc = "frs_rise"
  /\ risetime' = RiseTime
  /\ observer' = [observer EXCEPT !.date = RiseTime]
  /\ rise_az' = Az(obj, observer')
  /\ pc' = "frs_set"
  /\ UNCHANGED <<mainvars, favars, fazvars, obj, prevrise, nextrise, prevset,
                 nextset, settime, set_az, matchvars, seasonInstant, chainArg,
                 target, setTarget, queries, failures, angled, compared>>

\* The targettime line 40 hands to nearest_time.
SetTarget == observer.date

\* line 40
SetTime == nearest_time(SetTarget, prevset, nextset)

\* lines 40-43
FrsSet ==
  /\ pc = "frs_set"
  /\ setTarget' = SetTarget
  /\ settime' = SetTime
  /\ observer' = [observer EXCEPT !.date = SetTime]
  /\ set_az' = Az(obj, observer')
  /\ pc' = "frs_return"
  /\ UNCHANGED <<mainvars, favars, fazvars, obj, prevrise, nextrise, prevset,
                 nextset, risetime, rise_az, matchvars, seasonInstant,
                 chainArg, target, queries, failures, angled, compared>>

\* lines 45-46 and the assignment of line 53 or 65
FrsReturn ==
  /\ pc = "frs_return"
  /\ riseset' = (obj :> ("rise" :> rise_az @@ "set" :> set_az)) @@ riseset
  /\ pc' = IF obj = "sun" THEN "faz_moon" ELSE "faz_return"
  /\ UNCHANGED <<mainvars, observer, favars, lastfull, nextfull, frsvars,
                 matchvars, histvars>>

\* ---------------------------------------------------------- find_azimuths
\* The date lines 57-58 hand to previous_full_moon / next_full_moon.
MoonArg == observer.date

\* lines 60-63: the date the observer is moved to
FullMoon(last, next) ==
  IF now - last > next - now THEN next ELSE last

\* lines 57-63, then the call of find_rise_set at line 65
FazMoon ==
  /\ pc = "faz_moon"
  /\ lastfull' = previous_full_moon(MoonArg)
  /\ nextfull' = next_full_moon(MoonArg)
  /\ queries' = queries + 2
  /\ observer' = [observer EXCEPT !.date = FullMoon(lastfull', nextfull')]
  /\ obj' = "full moon"
  /\ pc' = "frs_enter"
  /\ UNCHANGED <<mainvars, favars, riseset, prevrise, nextrise, prevset,
                 nextset, risetime, settime, rise_az, set_az, matchvars,
                 seasonInstant, chainArg, target, setTarget, failures,
                 angled, compared>>

\* The third key pasted from the first.
SeasonLabelPasted == IF s = 3 THEN Seasons[1] ELSE Seasons[s]

\* The key of line 97, 100, 103 or 106.
SeasonLabel == Seasons[s]

\* line 67 and the assignment of line 97, 100, 103 or 106; after the last
\* season line 115
FazReturn ==
  /\ pc = "faz_return"
  /\ azimuths' = (SeasonLabel :> riseset) @@ azimuths
  /\ IF s < Len(Seasons)
     THEN /\ pc' = "fa_season"
          /\ UNCHANGED matchvars
     ELSE /\ matches' = <<>>
          /\ i' = 1
          /\ j' = 1
          /\ pc' = IF waypoints = <<>> THEN "report" ELSE "match"
  /\ UNCHANGED <<mainvars, observer, year, start_date, s, fazvars, frsvars,
                 histvars>>

\* ------------------------------------------------------- the matching loop
\* Waypoints told apart by their names only.
SamePointByName(wp1, wp2) == wp1[1] = wp2[1]

\* wp1 == wp2 at line 118: equality of the two lists.
SamePoint(wp1, wp2) == wp1 = wp2

\* lines 116-128 for one wp1 and one wp2; the loop leaves the observer at
\* obs and the number of ephemeris queries at q.
MatchStep(obs, q) ==
  /\ pc = "match"
  /\ LET wp1 == waypoints[i]
         wp2 == waypoints[j]
     IN IF SamePoint(wp1, wp2)
        THEN UNCHANGED <<matches, angled, compared>>
        ELSE /\ angled' = angled \cup {<<i, j>>}
             /\ compared' = compared \cup
                  { <<i, j, TableKeys(azimuths)[n]>> :
                      n \in 1..Len(TableKeys(azimuths)) }
             /\ matches' = matches \o PairMatches(azimuths, wp1, wp2)
  /\ IF j < Len(waypoints)
     THEN /\ j' = j + 1
          /\ UNCHANGED <<i, pc>>
     ELSE /\ j' = 1
          /\ i' = i + 1
          /\ pc' = IF i < Len(waypoints) THEN "match" ELSE "report"
  /\ observer' = obs
  /\ queries' = q
  /\ UNCHANGED <<mainvars, favars, fazvars, frsvars, seasonInstant, chainArg,
                 target, setTarget, failures>>

\* A loop that asks the ephemeris again while it matches.
MatchPairLazy ==
  MatchStep([observer EXCEPT !.date = seasonInstant[1]], queries + 1)

MatchPair == MatchStep(observer, queries)

\* lines 130-131, and the script ends
Report ==
  /\ pc = "report"
  /\ output' = Printed("Matches:", matches)
  /\ status' = <<0>>
  /\ pc' = "done"
  /\ UNCHANGED <<files, observerArg, now, k, waypoints, observerPoint, err,
                 observer, favars, fazvars, frsvars, matchvars, histvars>>

Next ==
  \/ MainArgs
  \/ MainRead
  \/ MainCheck
  \/ MainObserver
  \/ FaStart
  \/ FaSeason
  \/ FrsEnter
  \/ FrsPrevRise
  \/ FrsNextRise
  \/ FrsPrevSet
  \/ FrsNextSet
  \/ FrsRise
  \/ FrsSet
  \/ FrsReturn
  \/ FazMoon
  \/ FazReturn
  \/ MatchPair
  \/ Report

Spec == Init /\ [][Next]_vars

\* ================================================================ claims
Idx == 1..Len(waypoints)
MatchingBegun == pc \in {"match", "report", "done"}
SeasonSet == { Seasons[n] : n \in DOMAIN Seasons }
KeyAz(key) == azimuths[key[1]][key[2]][key[3]]
Diff(c) == Abs(KeyAz(c[3]) - angle_between(waypoints[c[1]], waypoints[c[2]]))

\* C1 as stated: when find_alignments is done, every ordered pair of two
\* different list positions had its bearing computed and compared against
\* every entry of the table, and no position was paired with itself.
C1_EveryOrderedPair ==
  pc = "done" =>
    \A a \in Idx : \A b \in Idx :
      IF a # b
      THEN /\ <<a, b>> \in angled
           /\ \A n \in DOMAIN AllKeys : <<a, b, AllKeys[n]>> \in compared
      ELSE <<a, b>> \notin angled

\* C1 amended: the pairs examined are exactly the ordered pairs of positions
\* whose records differ in value (name, lat, lon or ele); each is compared
\* against every entry of the table; records equal in value are never
\* paired, at the same position or at two.
C1_EveryUnequalPair ==
  pc = "done" =>
    \A a \in Idx : \A b \in Idx :
      IF waypoints[a] # waypoints[b]
      THEN /\ <<a, b>> \in angled
           /\ \A n \in DOMAIN AllKeys : <<a, b, AllKeys[n]>> \in compared
      ELSE <<a, b>> \notin angled

C1_Witness ==
  /\ pc = "done"
  /\ \E a \in Idx : \E b \in Idx : a # b /\ waypoints[a] = waypoints[b]
  /\ \E a \in Idx : \E b \in Idx : <<a, b>> \in angled /\ <<b, a>> \in angled

C2_Qualifying == { c \in compared : Diff(c) < 2 * Milli }
C2_Record(c) == <<waypoints[c[1]][1], waypoints[c[2]][1], c[3]>>

\* C2: the Match records appended are, one for one, the compared (pair,
\* season/body/event) combinations whose literal difference
\* abs(azimuth - bearing) is below 2.0 degrees: none is missing, none is
\* added, and equal records are all kept.
C2_StrictTolerance ==
  MatchingBegun =>
    LET qualifying == C2_Qualifying
    IN /\ Len(matches) = Cardinality(qualifying)
       /\ \A c \in qualifying :
            \E n \in DOMAIN matches : matches[n] = C2_Record(c)
       /\ \A n \in DOMAIN matches :
            Cardinality({ m \in DOMAIN matches : matches[m] = matches[n] })
              = Cardinality({ c \in qualifying : C2_Record(c) = matches[n] })

C2_Witness ==
  /\ pc = "done"
  /\ \E c \in compared : Diff(c) = 2 * Milli
  /\ \E c \in compared : Diff(c) = 2 * Milli - 1
  /\ \E c \in compared : Diff(c) >= 2 * Milli /\ FullCircle - Diff(c) < 2 * Milli
  /\ \E m \in DOMAIN matches : \E n \in DOMAIN matches :
       m < n /\ matches[m] = matches[n]

\* C3: the seasonal instants find_azimuths is called at are strictly
\* increasing, the first is the next equinox after January 1 of the year and
\* each later one is computed from the previous seasonal instant itself.
C3_ForwardChain ==
  \A n \in DOMAIN seasonInstant :
    IF n = 1
    THEN chainArg[n] = StartDate(YearOf(now))
    ELSE /\ chainArg[n] = seasonInstant[n - 1]
         /\ seasonInstant[n] > seasonInstant[n - 1]

\* C4: the date the observer has when the rise azimuth is computed is the
\* candidate rising instant nearest the target, and the date it has when the
\* set azimuth is computed is one of the two candidate setting instants.
C4_NearestCandidate ==
  /\ pc = "frs_set" =>
       /\ observer.date \in {prevrise, nextrise}
       /\ \A c \in {prevrise, nextrise} :
            Abs(target - observer.date) <= Abs(target - c)
  /\ pc = "frs_return" => observer.date \in {prevset, nextset}

\* C5: once matching has begun the table holds all four seasons, and no
\* step taken from then on changes the table, the observer or the number of
\* ephemeris queries; no bearing is computed before that.
C5_TableBeforeMatching ==
  /\ [](MatchingBegun => DOMAIN azimuths = SeasonSet)
  /\ [](angled # {} => MatchingBegun)
  /\ [][MatchingBegun =>
          /\ azimuths' = azimuths
          /\ observer' = observer
          /\ queries' = queries]_vars

C5_Witness == pc = "done" /\ angled # {} /\ queries > 0

FileRead(n) == pc # "main_args" /\ (k > n \/ pc # "main_read")

\* C7: for a file without <wpt> elements the loader returns the empty
\* sequence and the run reports "No waypoints" for it; a run that loaded no
\* waypoint at all prints the help text and exits with a non-zero status
\* before any ephemeris query.
C7_NoWaypointsReported ==
  /\ \A n \in DOMAIN files :
       (files[n] = <<>> /\ FileRead(n)) =>
         /\ read_track_file_GPX(files[n]) = <<>>
         /\ \E m \in DOMAIN output :
              output[m].line = "No waypoints in" /\ output[m].arg = n
  /\ (pc \in {"raised", "exited", "done"} /\ waypoints = <<>>) =>
       /\ \E m \in DOMAIN output : output[m].line = "help"
       /\ status \notin {<<>>, <<0>>}
       /\ queries = 0

\* C8: the setting instant is chosen by its distance to the target instant
\* find_rise_set started from, not to the date the observer was moved to for
\* the rise.
C8_SetFromTarget == pc = "frs_return" => setTarget = target

\* C9: when find_rise_set is entered for the Moon, lastfull and nextfull are
\* the full moons before and after the seasonal instant, and the observer's
\* date is the one of the two nearer the wall clock.
C9_MoonAroundSeason ==
  (pc = "frs_enter" /\ obj = "full moon") =>
    /\ lastfull = previous_full_moon(seasonInstant[s])
    /\ nextfull = next_full_moon(seasonInstant[s])
    /\ observer.date \in {lastfull, nextfull}
    /\ \A c \in {lastfull, nextfull} :
         Abs(now - observer.date) <= Abs(now - c)

\* C10: an ephemeris query that is not answered ends the run with the
\* exception: nothing is recorded for the body or the season at hand, no
\* Match list is produced, and nothing is done afterwards (no retry).
C10_FailurePropagates ==
  /\ [](failures > 0 =>
          /\ failures = 1
          /\ pc = "raised"
          /\ status = <<1>>
          /\ obj \notin DOMAIN riseset
          /\ Seasons[s] \notin DOMAIN azimuths
          /\ matches = <<>>
          /\ angled = {}
          /\ \A m \in DOMAIN output : output[m].line # "Matches:")
  /\ [][failures > 0 => UNCHANGED vars]_vars

C10_Witness ==
  /\ failures > 0
  /\ pc = "raised"
  /\ s = 3
  /\ obj = "full moon"
  /\ DOMAIN azimuths = {Seasons[1], Seasons[2]}

TypeOK ==
  /\ pc \in {"main_args", "main_read", "main_check", "main_observer",
             "fa_start", "fa_season", "frs_enter", "frs_prevrise",
             "frs_nextrise", "frs_prevset", "frs_nextset", "frs_rise",
             "frs_set", "frs_return", "faz_moon", "faz_return", "match",
             "report", "done", "raised", "exited"}
  /\ s \in 0..Len(Seasons)

====
